---- MODULE Spec2Model ----
(***************************************************************************)
(* NeighborCacheImpl (fboss/agent/NeighborCacheImpl-defs.h): the cache map *)
(* entries_, the SwitchState neighbor table of the owning VLAN, the queue  *)
(* of state updates handed to SwSwitch::updateState, the background        *)
(* EventBase on which entries are destroyed, and the cache destructor.     *)
(***************************************************************************)
EXTENDS Naturals, Sequences, FiniteSets, TLC

\* ------------------------------------------------------------------ bounds
MaxQueue == 2   \* state updates submitted and not yet applied
MaxEvb == 2     \* tasks waiting on the background EventBase
MaxCalls == 3   \* cache operations made in one run

\* ------------------------------------------------------------------ values
Addrs == {"a1", "a2"}
Macs == {"m1", "m2"}
Ports == {"p1", "p2"}
\* the MAC and port of EntryFields(ip, intfID_, PENDING): none learned yet
NoMac == "m0"
NoPort == "p0"
\* intfID_: one cache serves one interface of one VLAN
IntfID == "intf1"
NeighborEntryState == {"INCOMPLETE", "REACHABLE", "STALE", "PROBE", "EXPIRED"}
\* the states callers hand to setEntry / setExistingEntry
LearnStates == {"REACHABLE", "STALE"}
\* the (MAC, port) pairs neighbors are learned with: two neighbors on two
\* ports, so that relearning an address changes both MAC and port
Bindings == {<<"m1", "p1">>, <<"m2", "p2">>}

VARIABLES
  entries,    \* entries_: address -> entry (a function on the addresses held)
  tree,       \* the published SwitchState: [vlan, attached, table]
  queue,      \* updates given to sw_->updateState, applied in order
  evb,        \* tasks queued on sw_->getBackgroundEVB()
  evbRun,     \* the timer callback the background thread is inside, or Idle
  lock,       \* the cache level lock: "free", or held by a "caller"
  dtor,       \* ~NeighborCacheImpl: "alive", "waiting", "returned"
  stopTasks,  \* the destructor's futures not yet fulfilled (addresses)
  crashed,    \* a CHECK / DCHECK aborted the process
  ncalls,     \* cache operations made so far
  call        \* the step just taken: operation, arguments, result

vars == <<entries, tree, queue, evb, evbRun, lock, dtor, stopTasks,
          crashed, ncalls, call>>

lifeVars == <<evbRun, lock, dtor, stopTasks>>

Idle == [kind |-> "idle"]

\* ------------------------------------------------- functions as finite maps
Put(f, k, v) == [x \in (DOMAIN f) \cup {k} |-> IF x = k THEN v ELSE f[x]]
Drop(f, k) == [x \in (DOMAIN f) \ {k} |-> f[x]]
EmptyMap == [x \in {} |-> x]

\* ------------------------------------------------------------- EntryFields
\* EntryFields(ip, mac, portID, intfID_)
EntryFields(ip, mac, port) ==
  [ip |-> ip, mac |-> mac, port |-> port, interfaceID |-> IntfID,
   pending |-> FALSE]

\* EntryFields(ip, intfID_, PENDING)
PendingFields(ip) ==
  [ip |-> ip, mac |-> NoMac, port |-> NoPort, interfaceID |-> IntfID,
   pending |-> TRUE]

\* --------------------------------------------------- NeighborCacheEntry
\* std::make_shared<Entry>(fields, evb, cache_, state)
NewEntry(fields, state) == [fields |-> fields, state |-> state]

\* Entry::fieldsMatch: compares the mutable fields, not the identity
fieldsMatch(entry, fields) ==
  /\ entry.fields.mac = fields.mac
  /\ entry.fields.port = fields.port
  /\ entry.fields.pending = fields.pending

\* Entry::updateFields
updateFields(entry, fields) == [entry EXCEPT !.fields = fields]

\* Entry::updateState
updateState(entry, state) == [entry EXCEPT !.state = state]

\* Entry::isPending
isPending(entry) == entry.fields.pending

\* Entry::process: one step of the state machine; the set of possible
\* next states (a probing entry either retries or gives up)
processStep(state) ==
  CASE state = "INCOMPLETE" -> {"INCOMPLETE", "EXPIRED"}
    [] state = "REACHABLE" -> {"STALE"}
    [] state = "STALE" -> {"PROBE"}
    [] state = "PROBE" -> {"PROBE", "EXPIRED"}
    [] OTHER -> {"EXPIRED"}

\* Entry::destroy(entry, evb): hands the shared_ptr to the background
\* EventBase, which lets go of the entry later; the caller does not wait
EntryDestroy(q, ip) == Append(q, [kind |-> "release"])

\* ------------------------------------------------------------ SwitchState
\* a node of the VLAN's neighbor table
NodeOf(fields) ==
  [mac |-> fields.mac, port |-> fields.port, intf |-> fields.interfaceID,
   pending |-> fields.pending]

\* table->addPendingEntry(ip, interfaceID)
PendingNode(intf) ==
  [mac |-> NoMac, port |-> NoPort, intf |-> intf, pending |-> TRUE]

\* Interface::isIpAttached(ip, interfaceID, state)
isIpAttached(ip, state) == ip \in state.attached

\* the results of an update function
Null == [kind |-> "null"]
NewState(s) == [kind |-> "new", state |-> s]
Thrown == [kind |-> "throw"]

\* checkVlanAndIntf without its subnet test
checkVlanAndIntf_NoSubnet(state, fields) ==
  IF ~state.vlan THEN FALSE ELSE TRUE

\* ncachehelpers::checkVlanAndIntf
checkVlanAndIntf(state, fields) ==
  IF ~state.vlan THEN FALSE
  ELSE IF ~isIpAttached(fields.ip, state) THEN FALSE
  ELSE TRUE

\* nodeMatches with the pending test the wrong way round
nodeMatches_PendingFlipped(node, fields) ==
  /\ node.mac = fields.mac
  /\ node.port = fields.port
  /\ node.intf = fields.interfaceID
  /\ node.pending

\* the node comparison of programEntry's updateFn
nodeMatches(node, fields) ==
  /\ node.mac = fields.mac
  /\ node.port = fields.port
  /\ node.intf = fields.interfaceID
  /\ ~node.pending

\* programEntryFn updating where it should add: a missing node stays missing
programEntryFn_NoAdd(fields, state) ==
  IF ~checkVlanAndIntf(state, fields) THEN Null
  ELSE IF fields.ip \notin DOMAIN state.table THEN Null
       ELSE IF nodeMatches(state.table[fields.ip], fields) THEN Null
            ELSE NewState([state EXCEPT
                             !.table = Put(@, fields.ip, NodeOf(fields))])

\* programEntry's updateFn, applied to snapshot state
programEntryFn(fields, state) ==
  IF ~checkVlanAndIntf(state, fields) THEN Null
  ELSE IF fields.ip \notin DOMAIN state.table
       THEN NewState([state EXCEPT !.table = Put(@, fields.ip, NodeOf(fields))])
       ELSE IF nodeMatches(state.table[fields.ip], fields) THEN Null
            ELSE NewState([state EXCEPT
                             !.table = Put(@, fields.ip, NodeOf(fields))])

\* programPendingEntryFn returning early for a resolved node only
programPendingEntryFn_ResolvedOnly(fields, force, state) ==
  IF ~checkVlanAndIntf(state, fields) THEN Null
  ELSE IF /\ fields.ip \in DOMAIN state.table
          /\ ~state.table[fields.ip].pending
          /\ ~force
       THEN Null
       ELSE NewState([state EXCEPT
              !.table = Put(Drop(@, fields.ip), fields.ip,
                            PendingNode(fields.interfaceID))])

\* programPendingEntryFn without the force capture: an existing node stays
programPendingEntryFn_NoForce(fields, force, state) ==
  IF ~checkVlanAndIntf(state, fields) THEN Null
  ELSE IF fields.ip \in DOMAIN state.table THEN Null
       ELSE NewState([state EXCEPT
              !.table = Put(@, fields.ip, PendingNode(fields.interfaceID))])

\* programPendingEntry's updateFn, applied to snapshot state
programPendingEntryFn(fields, force, state) ==
  IF ~checkVlanAndIntf(state, fields) THEN Null
  ELSE IF fields.ip \in DOMAIN state.table /\ ~force THEN Null
       ELSE NewState([state EXCEPT
              !.table = Put(Drop(@, fields.ip), fields.ip,
                            PendingNode(fields.interfaceID))])

\* flushEntryFromSwitchState removing from a table it did not make current
flushEntryFromSwitchState_NoRemove(state, ip) ==
  IF ip \notin DOMAIN state.table
  THEN [flushed |-> FALSE, state |-> state]
  ELSE [flushed |-> TRUE, state |-> state]

\* flushEntryFromSwitchState, after its DCHECK: [flushed, state]
flushEntryFromSwitchState(state, ip) ==
  IF ip \notin DOMAIN state.table
  THEN [flushed |-> FALSE, state |-> state]
  ELSE [flushed |-> TRUE, state |-> [state EXCEPT !.table = Drop(@, ip)]]

\* flushEntry's updateFn, applied to snapshot state.  getVlans()->getVlan
\* is the accessor without an absent result (getVlanIf, used by
\* checkVlanAndIntf, is the one that yields null): with the VLAN gone the
\* function does not reach its return nullptr
flushEntryFn(ip, state) ==
  IF ~state.vlan THEN Thrown
  ELSE LET r == flushEntryFromSwitchState(state, ip)
       IN IF r.flushed THEN NewState(r.state) ELSE Null

\* the queued updates
AddUpdate(fields) == [kind |-> "add", fields |-> fields]
PendingUpdate(fields, force) ==
  [kind |-> "pending", fields |-> fields, force |-> force]
FlushUpdate(ip, blocking) ==
  [kind |-> "flush", ip |-> ip, blocking |-> blocking]

UpdateIp(u) == IF u.kind = "flush" THEN u.ip ELSE u.fields.ip

\* what an update function returns on snapshot state
RunUpdate(u, state) ==
  CASE u.kind = "add" -> programEntryFn(u.fields, state)
    [] u.kind = "pending" -> programPendingEntryFn(u.fields, u.force, state)
    [] OTHER -> flushEntryFn(u.ip, state)

\* ------------------------------------------------------------- cache map
\* getCacheEntry(ip) # nullptr
hasCacheEntry(m, ip) == ip \in DOMAIN m

\* setCacheEntry
setCacheEntry(m, ip, entry) == Put(m, ip, entry)

\* setEntryInternal refreshing the state of an existing entry only
setEntryInternal_NoUpdateFields(m, fields, state, add) ==
  IF hasCacheEntry(m, fields.ip)
  THEN Put(m, fields.ip, updateState(m[fields.ip], state))
  ELSE IF add THEN setCacheEntry(m, fields.ip, NewEntry(fields, state))
       ELSE m

\* setEntryInternal creating whatever add says
setEntryInternal_AlwaysAdd(m, fields, state, add) ==
  IF hasCacheEntry(m, fields.ip)
  THEN LET e == m[fields.ip]
           e1 == IF ~fieldsMatch(e, fields) THEN updateFields(e, fields) ELSE e
       IN Put(m, fields.ip, updateState(e1, state))
  ELSE setCacheEntry(m, fields.ip, NewEntry(fields, state))

\* setEntryInternal: the map afterwards
setEntryInternal(m, fields, state, add) ==
  IF hasCacheEntry(m, fields.ip)
  THEN LET e == m[fields.ip]
           e1 == IF ~fieldsMatch(e, fields) THEN updateFields(e, fields) ELSE e
       IN Put(m, fields.ip, updateState(e1, state))
  ELSE IF add THEN setCacheEntry(m, fields.ip, NewEntry(fields, state))
       ELSE m

\* how the entry for ip stood before a call
Pre(m, ip) ==
  IF ~hasCacheEntry(m, ip) THEN "absent"
  ELSE IF isPending(m[ip]) THEN "pending" ELSE "resolved"

\* room on the background EventBase (the running task keeps one place, so
\* that a running task can always queue its follow-up)
EvbLoad == Len(evb) + (IF evbRun.kind = "idle" THEN 0 ELSE 1)
EvbRoom(n) == EvbLoad + n <= MaxEvb
QueueRoom(n) == Len(queue) + n <= MaxQueue

\* cache operations are made one at a time by callers, and none is made
\* while a caller waits inside updateStateBlocking or once the cache is
\* being destroyed
Blocked ==
  \E i \in 1..Len(queue) : queue[i].kind = "flush" /\ queue[i].blocking
Alive == ~crashed /\ dtor = "alive" /\ ~Blocked
CanCall == Alive /\ ncalls < MaxCalls

Called(op, arg, pre, ret) == [op |-> op, arg |-> arg, pre |-> pre, ret |-> ret]

\* programEntry: CHECK(!entry->isPending()), then the update is submitted
programEntry(q, entry) == Append(q, AddUpdate(entry.fields))

\* programPendingEntry: CHECK(entry->isPending()), then the update is submitted
programPendingEntry(q, entry, force) ==
  Append(q, PendingUpdate(entry.fields, force))

\* removeEntry: [found, map, evb] afterwards
removeEntry(m, q, ip) ==
  IF ~hasCacheEntry(m, ip) THEN [found |-> FALSE, map |-> m, evb |-> q]
  ELSE [found |-> TRUE, map |-> Drop(m, ip), evb |-> EntryDestroy(q, ip)]

\* ---------------------------------------------------------------- actions
setEntry(ip, mac, port, state) ==
  /\ CanCall /\ QueueRoom(1)
  /\ LET m == setEntryInternal(entries, EntryFields(ip, mac, port), state, TRUE)
         entry == m[ip]
     IN /\ entries' = m
        /\ IF ~isPending(entry)
           THEN queue' = programEntry(queue, entry) /\ crashed' = crashed
           ELSE queue' = queue /\ crashed' = TRUE
  /\ call' = Called("setEntry",
                    [ip |-> ip, mac |-> mac, port |-> port, state |-> state],
                    Pre(entries, ip), "void")
  /\ UNCHANGED <<tree, evb, evbRun, lock, dtor, stopTasks>>
  /\ ncalls' = ncalls + 1

setExistingEntry(ip, mac, port, state) ==
  /\ CanCall /\ QueueRoom(1)
  /\ LET m == setEntryInternal(entries, EntryFields(ip, mac, port), state, FALSE)
     IN /\ entries' = m
        /\ IF hasCacheEntry(m, ip)
           THEN IF ~isPending(m[ip])
                THEN queue' = programEntry(queue, m[ip]) /\ crashed' = crashed
                ELSE queue' = queue /\ crashed' = TRUE
           ELSE queue' = queue /\ crashed' = crashed
  /\ call' = Called("setExistingEntry",
                    [ip |-> ip, mac |-> mac, port |-> port, state |-> state],
                    Pre(entries, ip), "void")
  /\ UNCHANGED <<tree, evb, evbRun, lock, dtor, stopTasks>>
  /\ ncalls' = ncalls + 1

\* setPendingEntry without its early return
setPendingEntryOn_NoGuard(m, q, ip, force) ==
  LET m1 == setEntryInternal(m, PendingFields(ip), "INCOMPLETE", TRUE)
  IN IF isPending(m1[ip])
     THEN [map |-> m1, queue |-> programPendingEntry(q, m1[ip], force),
           crash |-> FALSE]
     ELSE [map |-> m1, queue |-> q, crash |-> TRUE]

\* setPendingEntry on map m and queue q: [map, queue, crash] afterwards
setPendingEntryOn(m, q, ip, force) ==
  IF ~force /\ hasCacheEntry(m, ip)
  THEN [map |-> m, queue |-> q, crash |-> FALSE]
  ELSE LET m1 == setEntryInternal(m, PendingFields(ip), "INCOMPLETE", TRUE)
       IN IF isPending(m1[ip])
          THEN [map |-> m1, queue |-> programPendingEntry(q, m1[ip], force),
                crash |-> FALSE]
          ELSE [map |-> m1, queue |-> q, crash |-> TRUE]

setPendingEntry(ip, force) ==
  /\ CanCall /\ QueueRoom(1)
  /\ LET r == setPendingEntryOn(entries, queue, ip, force)
     IN /\ entries' = r.map
        /\ queue' = r.queue
        /\ crashed' = (crashed \/ r.crash)
  /\ call' = Called("setPendingEntry", [ip |-> ip, force |-> force],
                    Pre(entries, ip), "void")
  /\ UNCHANGED <<tree, evb, evbRun, lock, dtor, stopTasks>>
  /\ ncalls' = ncalls + 1

\* flushEntry forgetting the tree: the entry goes, no update is submitted
flushEntryOn_NoSubmit(m, q, bg, ip, blocking) ==
  LET r == removeEntry(m, bg, ip)
  IN IF ~r.found
     THEN [ret |-> "false", map |-> m, queue |-> q, evb |-> bg]
     ELSE [ret |-> "true", map |-> r.map, queue |-> q, evb |-> r.evb]

\* flushEntry(ip, blocking) on the current state: [ret, map, queue, evb]
flushEntryOn(m, q, bg, ip, blocking) ==
  LET r == removeEntry(m, bg, ip)
  IN IF ~r.found
     THEN [ret |-> "false", map |-> m, queue |-> q, evb |-> bg]
     ELSE [ret |-> IF blocking THEN "waits" ELSE "true", map |-> r.map,
           queue |-> Append(q, FlushUpdate(ip, blocking)), evb |-> r.evb]

flushEntry(ip) ==
  /\ CanCall /\ QueueRoom(1) /\ EvbRoom(1)
  /\ LET r == flushEntryOn(entries, queue, evb, ip, FALSE)
     IN /\ entries' = r.map
        /\ queue' = r.queue
        /\ evb' = r.evb
        /\ call' = Called("flushEntry", [ip |-> ip], Pre(entries, ip), r.ret)
  /\ UNCHANGED <<tree, crashed, evbRun, lock, dtor, stopTasks>>
  /\ ncalls' = ncalls + 1

\* the call returns when its update has been applied (see ApplyUpdate)
flushEntryBlocking(ip) ==
  /\ CanCall /\ QueueRoom(1) /\ EvbRoom(1)
  /\ LET r == flushEntryOn(entries, queue, evb, ip, TRUE)
     IN /\ entries' = r.map
        /\ queue' = r.queue
        /\ evb' = r.evb
        /\ call' = Called("flushEntryBlocking", [ip |-> ip],
                          Pre(entries, ip), r.ret)
  /\ UNCHANGED <<tree, crashed, evbRun, lock, dtor, stopTasks>>
  /\ ncalls' = ncalls + 1

\* processEntry leaving an expired entry in the map
processEntryBody_NoFlush(ip, room) ==
  IF ~hasCacheEntry(entries, ip)
  THEN /\ UNCHANGED <<entries, queue, evb>>
       /\ call' = Called("processEntry", [ip |-> ip], "absent", "void")
  ELSE \E s \in processStep(entries[ip].state) :
         /\ entries' = Put(entries, ip, updateState(entries[ip], s))
         /\ UNCHANGED <<queue, evb>>
         /\ call' = Called("processEntry", [ip |-> ip], Pre(entries, ip),
                           IF s = "EXPIRED" THEN "expired" ELSE "void")

\* processEntry; room says whether the background EventBase can take the
\* entry Entry::destroy hands over
processEntryBody(ip, room) ==
  IF ~hasCacheEntry(entries, ip)
  THEN /\ UNCHANGED <<entries, queue, evb>>
       /\ call' = Called("processEntry", [ip |-> ip], "absent", "void")
  ELSE \E s \in processStep(entries[ip].state) :
         LET m == Put(entries, ip, updateState(entries[ip], s))
         IN IF s = "EXPIRED"
            THEN /\ QueueRoom(1) /\ room
                 /\ LET r == flushEntryOn(m, queue, evb, ip, FALSE)
                    IN /\ entries' = r.map
                       /\ queue' = r.queue
                       /\ evb' = r.evb
                 /\ call' = Called("processEntry", [ip |-> ip],
                                   Pre(entries, ip), "expired")
            ELSE /\ entries' = m
                 /\ UNCHANGED <<queue, evb>>
                 /\ call' = Called("processEntry", [ip |-> ip],
                                   Pre(entries, ip), "void")

processEntry(ip) ==
  /\ CanCall /\ lock = "free" /\ evbRun = Idle
  /\ processEntryBody(ip, EvbRoom(1))
  /\ UNCHANGED <<tree, crashed, evbRun, lock, dtor, stopTasks>>
  /\ ncalls' = ncalls + 1

\* the orders in which a loop over the entries in S may visit them
RECURSIVE Orders(_)
Orders(S) ==
  IF S = {} THEN {<<>>}
  ELSE UNION {{<<a>> \o o : o \in Orders(S \ {a})} : a \in S}

\* portDown's loop over the visited addresses: [map, queue, crash]
\* afterwards (a failed CHECK ends the loop with the process)
RECURSIVE portDownLoop(_, _, _)
portDownLoop(m, q, order) ==
  IF order = <<>> THEN [map |-> m, queue |-> q, crash |-> FALSE]
  ELSE LET r == setPendingEntryOn(m, q, Head(order), TRUE)
       IN IF r.crash THEN r
          ELSE portDownLoop(r.map, r.queue, Tail(order))

\* portDown's loop without its port test
onPort_All(m, port) == DOMAIN m

\* the entries bound to port
onPort(m, port) == {a \in DOMAIN m : m[a].fields.port = port}

portDown(port) ==
  /\ CanCall /\ QueueRoom(Cardinality(onPort(entries, port)))
  /\ \E order \in Orders(onPort(entries, port)) :
       LET r == portDownLoop(entries, queue, order)
       IN /\ entries' = r.map /\ queue' = r.queue
          /\ crashed' = (crashed \/ r.crash)
  /\ call' = Called("portDown", [port |-> port], "none", "void")
  /\ UNCHANGED <<tree, evb, evbRun, lock, dtor, stopTasks>>
  /\ ncalls' = ncalls + 1

\* the fields of a node of an imported table (entry->getFields())
FieldsOfNode(ip, node) ==
  [ip |-> ip, mac |-> node.mac, port |-> node.port, interfaceID |-> node.intf,
   pending |-> node.pending]

\* repopulate seeding every imported entry as freshly learned
repopulateState_Reachable(node) ==
  IF node.pending THEN "INCOMPLETE" ELSE "REACHABLE"

\* the state repopulate seeds an imported entry with
repopulateState(node) == IF node.pending THEN "INCOMPLETE" ELSE "STALE"

\* repopulate's loop over the visited addresses of table: the map afterwards
RECURSIVE repopulateLoop(_, _, _)
repopulateLoop(m, table, order) ==
  IF order = <<>> THEN m
  ELSE LET node == table[Head(order)]
           state == repopulateState(node)
       IN repopulateLoop(
            setEntryInternal(m, FieldsOfNode(Head(order), node), state, TRUE),
            table, Tail(order))

\* repopulate programming what it imports, as setEntry would
repopulate_Programs(table) ==
  /\ CanCall
  /\ \E order \in Orders(DOMAIN table) :
       /\ entries' = repopulateLoop(entries, table, order)
       /\ queue' = IF order = <<>> THEN queue
                   ELSE Append(queue, AddUpdate(
                          FieldsOfNode(Head(order), table[Head(order)])))
  /\ call' = Called("repopulate", table, "none", "void")
  /\ ncalls' = ncalls + 1
  /\ UNCHANGED <<tree, evb, crashed, evbRun, lock, dtor, stopTasks>>

repopulate(table) ==
  /\ CanCall
  /\ \E order \in Orders(DOMAIN table) :
       entries' = repopulateLoop(entries, table, order)
  /\ call' = Called("repopulate", table, "none", "void")
  /\ ncalls' = ncalls + 1
  /\ UNCHANGED <<tree, queue, evb, crashed, evbRun, lock, dtor, stopTasks>>

\* -------------------------------------------------- the update thread
\* SwSwitch applies the oldest submitted update to the current state.  A
\* flush update first DCHECKs that the cache holds no entry for its address
\* (a debug build aborts, a release build goes on), and, submitted without
\* blocking, stores to the flushed local of a flushEntry call that has
\* returned.  It reads the cache through the this it captured: once the
\* destructor has returned that read may also bring the process down.
strayWrite(u, r) ==
  IF u.kind = "flush" /\ ~u.blocking /\ r.kind = "new"
  THEN {"harmless", "damage"}
  ELSE {"none"}

ApplyUpdate ==
  /\ ~crashed /\ queue # <<>>
  /\ LET u == Head(queue)
         r == RunUpdate(u, tree)
         dcheck == u.kind # "flush" \/ ~hasCacheEntry(entries, u.ip)
     IN \/ /\ tree' = (IF r.kind = "new" THEN r.state ELSE tree)
           /\ queue' = Tail(queue)
           /\ crashed' = crashed
           /\ \E stray \in strayWrite(u, r) :
                call' = Called("apply", u,
                               IF dcheck THEN "dcheck-ok" ELSE "dcheck-failed",
                               [kind |-> r.kind, stray |-> stray])
        \/ /\ ~dcheck
           /\ crashed' = TRUE
           /\ call' = Called("apply", u, "dcheck-failed",
                             [kind |-> "abort", stray |-> "none"])
           /\ UNCHANGED <<tree, queue>>
        \/ /\ u.kind = "flush" /\ dtor = "returned"
           /\ crashed' = TRUE
           /\ call' = Called("apply", u, "use-after-free",
                             [kind |-> "abort", stray |-> "none"])
           /\ UNCHANGED <<tree, queue>>
  /\ UNCHANGED <<entries, evb, evbRun, lock, dtor, stopTasks>>
  /\ ncalls' = ncalls

\* ------------------------------------------------------- other writers
\* the owning VLAN (and with it its neighbor table and interface) is deleted
VlanDeleted ==
  /\ ~crashed /\ tree.vlan
  /\ tree' = [vlan |-> FALSE, attached |-> {}, table |-> EmptyMap]
  /\ call' = Called("vlanDeleted", "none", "none", "void")
  /\ UNCHANGED <<entries, queue, evb, evbRun, lock, dtor, stopTasks,
                 crashed>>
  /\ ncalls' = ncalls

\* the interface's subnets change: ip is no longer locally attached
SubnetChanged(ip) ==
  /\ ~crashed /\ tree.vlan /\ ip \in tree.attached
  /\ tree' = [tree EXCEPT !.attached = @ \ {ip}]
  /\ call' = Called("subnetChanged", [ip |-> ip], "none", "void")
  /\ UNCHANGED <<entries, queue, evb, evbRun, lock, dtor, stopTasks,
                 crashed>>
  /\ ncalls' = ncalls

\* ------------------------------------------------- the background thread
\* the background EventBase runs its oldest task.  A stopEntry task (queued
\* by the destructor) calls Entry::destroy and fulfils its future; a
\* release task lets go of an entry Entry::destroy handed over.
BgRun ==
  /\ ~crashed /\ evbRun = Idle /\ evb # <<>>
  /\ Head(evb).kind \in {"stopEntry", "release"}
  /\ LET t == Head(evb)
     IN IF t.kind = "stopEntry"
        THEN /\ evb' = EntryDestroy(Tail(evb), t.ip)
             /\ stopTasks' = stopTasks \ {t.ip}
        ELSE /\ evb' = Tail(evb)
             /\ stopTasks' = stopTasks
  /\ call' = Called("bgRun", Head(evb), "none", "void")
  /\ UNCHANGED <<entries, tree, queue, evbRun, lock, dtor, crashed>>
  /\ ncalls' = ncalls

\* an entry's timer comes due on the background EventBase
TimerFires(ip) ==
  /\ ~crashed /\ hasCacheEntry(entries, ip) /\ EvbRoom(1)
  /\ dtor = "alive" \/ (dtor = "waiting" /\ ip \in stopTasks)
  /\ evb' = Append(evb, [kind |-> "timer", ip |-> ip])
  /\ call' = Called("timerFires", [ip |-> ip], "none", "void")
  /\ UNCHANGED <<entries, tree, queue, evbRun, lock, dtor, stopTasks,
                 crashed>>
  /\ ncalls' = ncalls

\* the background thread enters a timer callback, which needs the cache lock
BgStartTimer ==
  /\ ~crashed /\ evbRun = Idle /\ evb # <<>> /\ Head(evb).kind = "timer"
  /\ evbRun' = Head(evb)
  /\ evb' = Tail(evb)
  /\ call' = Called("bgStartTimer", Head(evb), "none", "void")
  /\ UNCHANGED <<entries, tree, queue, lock, dtor, stopTasks, crashed>>
  /\ ncalls' = ncalls

\* the timer callback gets the lock and calls processEntry.  After the
\* destructor has returned the cache it calls into is gone.
BgTimer ==
  /\ ~crashed /\ evbRun.kind = "timer" /\ lock = "free"
  /\ IF dtor = "returned"
     THEN /\ crashed' \in BOOLEAN
          /\ call' = Called("bgTimer", evbRun, "none", "use-after-free")
          /\ UNCHANGED <<entries, queue, evb>>
     ELSE /\ processEntryBody(evbRun.ip, TRUE)
          /\ crashed' = crashed
  /\ evbRun' = Idle
  /\ UNCHANGED <<tree, lock, dtor, stopTasks>>
  /\ ncalls' = ncalls

\* -------------------------------------------------------------- callers
AcquireLock ==
  /\ ~crashed /\ dtor = "alive" /\ lock = "free"
  /\ lock' = "caller"
  /\ call' = Called("lock", "none", "none", "void")
  /\ UNCHANGED <<entries, tree, queue, evb, evbRun, dtor, stopTasks,
                 crashed>>
  /\ ncalls' = ncalls

\* a thread blocked inside the destructor cannot release what it holds
ReleaseLock ==
  /\ ~crashed /\ lock = "caller" /\ dtor # "waiting"
  /\ lock' = "free"
  /\ call' = Called("unlock", "none", "none", "void")
  /\ UNCHANGED <<entries, tree, queue, evb, evbRun, dtor, stopTasks,
                 crashed>>
  /\ ncalls' = ncalls

\* ---------------------------------------------------- ~NeighborCacheImpl
\* the stop tasks the destructor's loop queues, in the order it visits
RECURSIVE stopEntryTasks(_)
stopEntryTasks(order) ==
  IF order = <<>> THEN <<>>
  ELSE <<[kind |-> "stopEntry", ip |-> Head(order)]>>
         \o stopEntryTasks(Tail(order))

\* the loop: one stopEntry task per entry goes to the background EventBase,
\* one future each is kept
DtorStart ==
  /\ Alive /\ EvbRoom(Cardinality(DOMAIN entries))
  /\ \E order \in Orders(DOMAIN entries) :
       evb' = evb \o stopEntryTasks(order)
  /\ stopTasks' = DOMAIN entries
  /\ dtor' = "waiting"
  /\ call' = Called("~NeighborCacheImpl", [n |-> Cardinality(DOMAIN entries)],
                    "none", "waits")
  /\ UNCHANGED <<entries, tree, queue, evbRun, lock, crashed>>
  /\ ncalls' = ncalls

\* the destructor not waiting for its futures
collected_NoWait(futures) == TRUE

\* folly::collectAll(stopTasks).get() returns
collected(futures) == futures = {}

DtorReturn ==
  /\ ~crashed /\ dtor = "waiting" /\ collected(stopTasks)
  /\ dtor' = "returned"
  /\ call' = Called("~NeighborCacheImpl", [n |-> Cardinality(DOMAIN entries)],
                    "none", "returned")
  /\ UNCHANGED <<entries, tree, queue, evb, evbRun, lock, stopTasks,
                 crashed>>
  /\ ncalls' = ncalls

\* ---------------------------------------------------------- specifications
Init ==
  /\ entries = EmptyMap
  /\ tree = [vlan |-> TRUE, attached |-> Addrs, table |-> EmptyMap]
  /\ queue = <<>>
  /\ evb = <<>>
  /\ evbRun = Idle
  /\ lock = "free"
  /\ dtor = "alive"
  /\ stopTasks = {}
  /\ crashed = FALSE
  /\ ncalls = 0
  /\ call = Called("init", "none", "none", "void")

\* the neighbor tables repopulate may be handed
Nodes ==
  {[mac |-> NoMac, port |-> NoPort, intf |-> IntfID, pending |-> TRUE]}
    \cup {[mac |-> b[1], port |-> b[2], intf |-> IntfID, pending |-> FALSE] :
            b \in Bindings}
NTables == UNION {[S -> Nodes] : S \in SUBSET Addrs}

\* the cache and the neighbor table it mirrors
Next ==
  \/ \E ip \in Addrs, b \in Bindings, st \in LearnStates :
       setEntry(ip, b[1], b[2], st)
  \/ \E ip \in Addrs, b \in Bindings, st \in LearnStates :
       setExistingEntry(ip, b[1], b[2], st)
  \/ \E ip \in Addrs, force \in BOOLEAN : setPendingEntry(ip, force)
  \/ \E ip \in Addrs : processEntry(ip)
  \/ \E ip \in Addrs : flushEntry(ip)
  \/ \E ip \in Addrs : flushEntryBlocking(ip)
  \/ \E port \in Ports \cup {NoPort} : portDown(port)
  \/ \E table \in NTables : repopulate(table)
  \/ ApplyUpdate
  \/ VlanDeleted
  \/ \E ip \in Addrs : SubnetChanged(ip)
  \/ BgRun

Spec == Init /\ [][Next]_vars

\* ------------------------------------------------------------------------
\* The life of a cache that holds entries: callers that take the cache
\* lock, entry timers that run on the background thread and need the same
\* lock, removal, and the destructor.
InitLife ==
  /\ \E S \in SUBSET Addrs :
       \E kind \in [S -> {"resolved", "pending"}] :
         /\ entries =
              [a \in S |->
                 IF kind[a] = "resolved"
                 THEN NewEntry(EntryFields(a, "m1", "p1"), "REACHABLE")
                 ELSE NewEntry(PendingFields(a), "INCOMPLETE")]
         /\ tree = [vlan |-> TRUE, attached |-> Addrs,
                    table |-> [a \in S |-> NodeOf(entries[a].fields)]]
  /\ queue = <<>>
  /\ evb = <<>>
  /\ evbRun = Idle
  /\ lock = "free"
  /\ dtor = "alive"
  /\ stopTasks = {}
  /\ crashed = FALSE
  /\ ncalls = 0
  /\ call = Called("init", "none", "none", "void")

NextLife ==
  \/ \E ip \in Addrs : flushEntry(ip)
  \/ ApplyUpdate
  \/ AcquireLock
  \/ ReleaseLock
  \/ \E ip \in Addrs : TimerFires(ip)
  \/ BgStartTimer
  \/ BgTimer
  \/ BgRun
  \/ DtorStart
  \/ DtorReturn

SpecLife == InitLife /\ [][NextLife]_vars

\* the background EventBase keeps running its tasks, the update thread keeps
\* applying updates, a caller that holds the lock lets go of it, and a
\* thread whose futures are all fulfilled wakes up
FairLife ==
  /\ WF_vars(BgStartTimer)
  /\ WF_vars(BgTimer)
  /\ WF_vars(BgRun)
  /\ WF_vars(ApplyUpdate)
  /\ WF_vars(ReleaseLock)
  /\ WF_vars(DtorReturn)

SpecLifeFair == SpecLife /\ FairLife

\* ------------------------------------------------------------------------
\* The cache alone with its tree: a cache that starts empty on an empty
\* neighbor table, no other writer of the tree (the VLAN stays, every address
\* stays locally attached), updates applied in the order submitted.
NextQuiet ==
  \/ \E ip \in Addrs, b \in Bindings, st \in LearnStates :
       setEntry(ip, b[1], b[2], st)
  \/ \E ip \in Addrs, b \in Bindings, st \in LearnStates :
       setExistingEntry(ip, b[1], b[2], st)
  \/ \E ip \in Addrs, force \in BOOLEAN : setPendingEntry(ip, force)
  \/ \E port \in Ports \cup {NoPort} : portDown(port)
  \/ \E ip \in Addrs : processEntry(ip)
  \/ \E ip \in Addrs : flushEntry(ip)
  \/ ApplyUpdate
  \/ BgRun

SpecQuiet == Init /\ [][NextQuiet]_vars

\* ------------------------------------------------------------------------
\* One submitted update meeting any snapshot: the cache of a VLAN whose
\* neighbor table already has nodes (the table repopulate is given) has made
\* one call, and the update thread applies what that call submitted.
Snapshots ==
  {[vlan |-> TRUE, attached |-> A, table |-> t] :
     A \in SUBSET Addrs, t \in NTables}
    \cup {[vlan |-> FALSE, attached |-> {}, table |-> EmptyMap]}

AllUpdates ==
  {AddUpdate(EntryFields(ip, b[1], b[2])) : ip \in Addrs, b \in Bindings}
    \cup {PendingUpdate(PendingFields(ip), force) :
            ip \in Addrs, force \in BOOLEAN}
    \cup {FlushUpdate(ip, blocking) : ip \in Addrs, blocking \in BOOLEAN}

InitApply ==
  /\ tree \in Snapshots
  /\ \E u \in AllUpdates :
       /\ queue = <<u>>
       /\ entries =
            IF u.kind = "flush" THEN EmptyMap
            ELSE [a \in {u.fields.ip} |->
                    NewEntry(u.fields, IF u.fields.pending THEN "INCOMPLETE"
                                       ELSE "REACHABLE")]
  /\ evb = <<>>
  /\ evbRun = Idle
  /\ lock = "free"
  /\ dtor = "alive"
  /\ stopTasks = {}
  /\ crashed = FALSE
  /\ ncalls = 1
  /\ call = Called("init", "none", "none", "void")

NextApply == ApplyUpdate

SpecApply == InitApply /\ [][NextApply]_vars

\* ------------------------------------------------------------------------
\* The properties.  call' describes the step being taken, so a formula
\* [][call'.op = ... => ...]_vars speaks of every step of that operation:
\* unprimed variables are the state the call found, primed ones the state
\* it left.
IsApply(c, kind) == c.op = "apply" /\ c.arg.kind = kind

\* C1, as claimed: setEntry(a, mac, port, REACHABLE) on an address without
\* an entry leaves an entry with exactly that MAC and port in state
\* REACHABLE and submits the matching update, and whenever such an update
\* has been applied the table holds the matching resolved node for a.
C1_SetEntryStep ==
  (call'.op = "setEntry" /\ ~hasCacheEntry(entries, call'.arg.ip)
     /\ call'.arg.state = "REACHABLE")
    => LET f == EntryFields(call'.arg.ip, call'.arg.mac, call'.arg.port)
       IN /\ hasCacheEntry(entries', f.ip)
          /\ entries'[f.ip] = NewEntry(f, "REACHABLE")
          /\ queue' = Append(queue, AddUpdate(f))

NodePresent(state, fields) ==
  /\ fields.ip \in DOMAIN state.table
  /\ state.table[fields.ip] = NodeOf(fields)

C1_Original ==
  [][/\ C1_SetEntryStep
     /\ IsApply(call', "add") => NodePresent(tree', call'.arg.fields)]_vars

\* C1, amended: the same, the node being promised only when the snapshot
\* the update is applied to still has the VLAN and still has a locally
\* attached.
C1_SetEntryFresh ==
  [][/\ C1_SetEntryStep
     /\ (IsApply(call', "add") /\ checkVlanAndIntf(tree, call'.arg.fields))
          => NodePresent(tree', call'.arg.fields)]_vars

C1_Witness ==
  /\ IsApply(call, "add") /\ call.ret.kind = "new"
  /\ NodePresent(tree, call.arg.fields)
  /\ hasCacheEntry(entries, call.arg.fields.ip)
  /\ entries[call.arg.fields.ip] = NewEntry(call.arg.fields, "REACHABLE")

\* C2: setEntry submits an update made of its arguments alone, the update
\* of programEntry applied to the snapshot it has just produced returns
\* nullptr, and of two identical updates applied one after the other the
\* second returns nullptr and leaves the tree as it is: two identical
\* setEntry calls make one tree version, not two.
C2_Idempotent ==
  [][/\ call'.op = "setEntry"
          => queue' = Append(queue, AddUpdate(EntryFields(
                        call'.arg.ip, call'.arg.mac, call'.arg.port)))
     /\ (IsApply(call', "add") /\ call'.ret.kind = "new")
          => programEntryFn(call'.arg.fields, tree') = Null
     /\ (IsApply(call, "add") /\ IsApply(call', "add")
           /\ call'.arg = call.arg)
          => (call'.ret.kind = "null" /\ tree' = tree)]_vars

C2_Witness ==
  /\ IsApply(call, "add") /\ call.ret.kind = "null"
  /\ checkVlanAndIntf(tree, call.arg.fields)
  /\ NodePresent(tree, call.arg.fields)

\* C3, as claimed: an update applied to a snapshot from which the VLAN has
\* been deleted returns nullptr and leaves the tree as it is, whatever
\* operation submitted it (stated for updates whose DCHECK holds).
C3_VlanDeletedNoop ==
  [][(call'.op = "apply" /\ ~tree.vlan /\ call'.pre = "dcheck-ok")
       => (call'.ret.kind = "null" /\ tree' = tree)]_vars

\* C4: setPendingEntry(a, false) on an address whose entry is resolved
\* changes neither the map nor the tree and submits no update.
C4_PendingNoForce ==
  [][(call'.op = "setPendingEntry" /\ ~call'.arg.force
        /\ Pre(entries, call'.arg.ip) = "resolved")
       => (entries' = entries /\ queue' = queue /\ tree' = tree)]_vars

C4_Witness ==
  /\ call.op = "setPendingEntry" /\ ~call.arg.force /\ call.pre = "resolved"
  /\ Pre(entries, call.arg.ip) = "resolved"
  /\ call.arg.ip \in DOMAIN tree.table
  /\ ~tree.table[call.arg.ip].pending

\* C5: setPendingEntry(a, true) on an address whose entry is resolved
\* leaves a pending entry (no MAC, INCOMPLETE) in the map and submits the
\* forced pending update; that update, applied to a snapshot that has the
\* VLAN and has a locally attached, leaves a pending node for a.
C5_PendingForce ==
  [][/\ (call'.op = "setPendingEntry" /\ call'.arg.force
           /\ Pre(entries, call'.arg.ip) = "resolved")
          => LET f == PendingFields(call'.arg.ip)
             IN /\ hasCacheEntry(entries', f.ip)
                /\ entries'[f.ip] = NewEntry(f, "INCOMPLETE")
                /\ queue' = Append(queue, PendingUpdate(f, TRUE))
     /\ (IsApply(call', "pending") /\ call'.arg.force
           /\ checkVlanAndIntf(tree, call'.arg.fields))
          => (/\ call'.arg.fields.ip \in DOMAIN tree'.table
              /\ tree'.table[call'.arg.fields.ip] = PendingNode(IntfID))]_vars

C5_Witness ==
  /\ call.op = "setPendingEntry" /\ call.arg.force /\ call.pre = "resolved"
  /\ Pre(entries, call.arg.ip) = "pending"
  /\ entries[call.arg.ip].fields.mac = NoMac
  /\ call.arg.ip \in DOMAIN tree.table
  /\ ~tree.table[call.arg.ip].pending

\* C6: flushEntry / flushEntryBlocking on an address without an entry
\* returns false and submits nothing; on an address with an entry it takes
\* the entry out of the map (getCacheEntry then finds none) and submits the
\* flush update, and once that update has run the table holds no node for
\* the address.
IsFlushCall(c) == c.op \in {"flushEntry", "flushEntryBlocking"}

C6_Remove ==
  [][/\ (IsFlushCall(call') /\ ~hasCacheEntry(entries, call'.arg.ip))
          => (/\ call'.ret = "false"
              /\ entries' = entries /\ queue' = queue /\ tree' = tree)
     /\ (IsFlushCall(call') /\ hasCacheEntry(entries, call'.arg.ip))
          => (/\ ~hasCacheEntry(entries', call'.arg.ip)
              /\ entries' = Drop(entries, call'.arg.ip)
              /\ queue' = Append(queue,
                   FlushUpdate(call'.arg.ip, call'.op = "flushEntryBlocking"))
              /\ tree' = tree)
     /\ (IsApply(call', "flush") /\ call'.ret.kind # "abort")
          => call'.arg.ip \notin DOMAIN tree'.table]_vars

C6_Witness ==
  /\ IsApply(call, "flush") /\ call.ret.kind = "new"
  /\ call.arg.ip \notin DOMAIN tree.table
  /\ ~hasCacheEntry(entries, call.arg.ip)

\* C7, as claimed: flushEntryBlocking returns once its update has been
\* applied, true exactly when a node for the address was in the table then
\* (and was removed), false otherwise; flushEntry returns true exactly when
\* the map held an entry, its update still waiting.
C7_FlushReturn ==
  [][/\ (IsApply(call', "flush") /\ call'.arg.blocking)
          => (/\ call'.ret.kind \in {"new", "null"}
              /\ (call'.ret.kind = "new")
                   <=> (call'.arg.ip \in DOMAIN tree.table))
     /\ call'.op = "flushEntry"
          => (/\ (call'.ret = "true") <=> hasCacheEntry(entries, call'.arg.ip)
              /\ call'.ret \in {"true", "false"}
              /\ tree' = tree)]_vars

\* C8: the destructor queues one stopEntry task per entry on the background
\* EventBase and keeps one future each, and it has not returned in any
\* state in which one of those tasks is still queued or one of those
\* futures is unfulfilled (a task that is running has left the queue and
\* has not yet fulfilled its future).
StopEntryQueued(ip) ==
  \E i \in 1..Len(evb) : evb[i] = [kind |-> "stopEntry", ip |-> ip]

C8_DtorWaits ==
  /\ [](dtor = "returned"
          => (stopTasks = {} /\ \A ip \in Addrs : ~StopEntryQueued(ip)))
  /\ [][(call'.op = "~NeighborCacheImpl" /\ call'.ret = "waits")
          => (/\ Len(evb') = Len(evb) + Cardinality(DOMAIN entries)
              /\ SubSeq(evb', 1, Len(evb)) = evb
              /\ stopTasks' = DOMAIN entries
              /\ \A ip \in DOMAIN entries :
                   \E i \in (Len(evb) + 1)..Len(evb') :
                     evb'[i] = [kind |-> "stopEntry", ip |-> ip])]_vars

C8_Witness ==
  /\ call.op = "~NeighborCacheImpl" /\ call.ret = "returned"
  /\ call.arg.n = Cardinality(Addrs)
  /\ dtor = "returned"

\* C9: in no state does the thread that holds the cache lock wait inside the
\* destructor for futures the background thread has still to fulfil while
\* the background thread waits, inside a timer callback, for that lock.
C9_NoLockedWait ==
  ~(/\ lock = "caller" /\ dtor = "waiting" /\ stopTasks # {}
    /\ evbRun.kind = "timer")

\* C10: portDown(p) turns every entry bound to p into a fresh pending entry
\* (no MAC, INCOMPLETE) and submits one forced pending update for each;
\* every other entry keeps its MAC, port and state, and nothing is
\* submitted for it.
C10_PortDown ==
  [][call'.op = "portDown"
       => LET hit == {a \in DOMAIN entries :
                        entries[a].fields.port = call'.arg.port}
              new == SubSeq(queue', Len(queue) + 1, Len(queue'))
          IN /\ DOMAIN entries' = DOMAIN entries
             /\ \A a \in hit : entries'[a] = NewEntry(PendingFields(a), "INCOMPLETE")
             /\ \A a \in (DOMAIN entries) \ hit : entries'[a] = entries[a]
             /\ SubSeq(queue', 1, Len(queue)) = queue
             /\ Len(new) = Cardinality(hit)
             /\ \A a \in hit :
                  \E i \in 1..Len(new) :
                    new[i] = PendingUpdate(PendingFields(a), TRUE)
             /\ \A i \in 1..Len(new) : UpdateIp(new[i]) \in hit]_vars

C10_Witness ==
  /\ call.op = "portDown" /\ call.arg.port \in Ports
  /\ \E a, b \in DOMAIN entries :
       /\ a # b
       /\ isPending(entries[a])
       /\ ~isPending(entries[b]) /\ entries[b].fields.port # call.arg.port
       /\ queue # <<>>
       /\ queue[Len(queue)] = PendingUpdate(PendingFields(a), TRUE)

\* C11: after repopulate(table) the map holds, for every imported entry, an
\* entry for its address with the imported fields, in state STALE when the
\* imported entry had a MAC and INCOMPLETE when it was pending; none is
\* seeded REACHABLE.
C11_RepopulateStates ==
  [][call'.op = "repopulate"
       => \A a \in DOMAIN call'.arg :
            /\ hasCacheEntry(entries', a)
            /\ entries'[a].fields = FieldsOfNode(a, call'.arg[a])
            /\ entries'[a].state =
                 (IF call'.arg[a].pending THEN "INCOMPLETE" ELSE "STALE")
            /\ entries'[a].state # "REACHABLE"]_vars

C11_Witness ==
  /\ call.op = "repopulate"
  /\ \E a, b \in DOMAIN call.arg :
       /\ call.arg[a].pending /\ entries[a].state = "INCOMPLETE"
       /\ ~call.arg[b].pending /\ entries[b].state = "STALE"
       /\ entries[b].fields.mac = call.arg[b].mac

\* C12: processEntry(a) on an address without an entry changes nothing; on
\* an address with one it takes one step of the entry's state machine, and
\* when that step ends in EXPIRED the entry leaves the map in the same call
\* and a non-blocking flush update for a is submitted; no entry the map
\* holds is ever EXPIRED.
C12_ProcessEntry ==
  [][/\ call'.op = "processEntry"
          => LET ip == call'.arg.ip
             IN IF ~hasCacheEntry(entries, ip)
                THEN /\ entries' = entries /\ queue' = queue
                     /\ evb' = evb /\ tree' = tree
                ELSE \/ /\ hasCacheEntry(entries', ip)
                        /\ entries'[ip].state
                             \in processStep(entries[ip].state) \ {"EXPIRED"}
                        /\ entries'[ip].fields = entries[ip].fields
                        /\ queue' = queue
                     \/ /\ "EXPIRED" \in processStep(entries[ip].state)
                        /\ entries' = Drop(entries, ip)
                        /\ queue' = Append(queue, FlushUpdate(ip, FALSE))
     /\ \A a \in DOMAIN entries' : entries'[a].state # "EXPIRED"]_vars

C12_Witness ==
  /\ call.op = "processEntry" /\ call.ret = "expired"
  /\ ~hasCacheEntry(entries, call.arg.ip)
  /\ queue # <<>>
  /\ queue[Len(queue)] = FlushUpdate(call.arg.ip, FALSE)

\* C13: setExistingEntry on an address without an entry leaves the map and
\* the submitted updates as they are; on an address with an entry it leaves
\* the map and the submitted updates exactly as setEntry with the same
\* arguments would (entry rewritten by setEntryInternal with add = true,
\* one add update of the entry's fields submitted).
C13_SetExisting ==
  [][call'.op = "setExistingEntry"
       => LET a == call'.arg
              f == EntryFields(a.ip, a.mac, a.port)
          IN IF ~hasCacheEntry(entries, a.ip)
             THEN /\ entries' = entries
                  /\ DOMAIN entries' = DOMAIN entries
                  /\ queue' = queue /\ tree' = tree
             ELSE /\ entries' = setEntryInternal(entries, f, a.state, TRUE)
                  /\ entries'[a.ip] = NewEntry(f, a.state)
                  /\ queue' = programEntry(queue, entries'[a.ip])
                  /\ crashed' = crashed]_vars

C13_Witness ==
  /\ call.op = "setExistingEntry" /\ call.pre = "absent"
  /\ ~hasCacheEntry(entries, call.arg.ip)
  /\ entries # EmptyMap

\* C14, as claimed: the update of programPendingEntry, applied to a snapshot
\* that has the VLAN and has the address locally attached, returns nullptr
\* exactly when a resolved node for the address is present and force is not
\* set, and otherwise returns a new snapshot in which the address has a
\* pending node.
C14_Original ==
  [][(IsApply(call', "pending") /\ checkVlanAndIntf(tree, call'.arg.fields))
       => LET ip == call'.arg.fields.ip
          IN /\ (call'.ret.kind = "null")
                  <=> (/\ ip \in DOMAIN tree.table
                       /\ ~tree.table[ip].pending
                       /\ ~call'.arg.force)
             /\ call'.ret.kind = "new"
                  => (/\ ip \in DOMAIN tree'.table
                      /\ tree'.table[ip] = PendingNode(IntfID))]_vars

\* C14, amended: it returns nullptr exactly when a node for the address,
\* resolved or pending, is present and force is not set; otherwise (no node,
\* or force set) it returns a new snapshot in which the address has a
\* pending node and every other address its node as before.
C14_PendingStep ==
  [][(IsApply(call', "pending") /\ checkVlanAndIntf(tree, call'.arg.fields))
       => LET ip == call'.arg.fields.ip
          IN /\ (call'.ret.kind = "null")
                  <=> (ip \in DOMAIN tree.table /\ ~call'.arg.force)
             /\ call'.ret.kind = "null" => tree' = tree
             /\ call'.ret.kind # "null"
                  => (/\ call'.ret.kind = "new"
                      /\ tree'.table =
                           Put(tree.table, ip, PendingNode(IntfID))
                      /\ tree'.vlan = tree.vlan
                      /\ tree'.attached = tree.attached)]_vars

C14_Witness ==
  /\ IsApply(call, "pending") /\ ~call.arg.force
  /\ call.ret.kind = "null"
  /\ checkVlanAndIntf(tree, call.arg.fields)
  /\ call.arg.fields.ip \in DOMAIN tree.table
  /\ tree.table[call.arg.fields.ip].pending

\* C15: whenever a flush update is applied (flushEntryFromSwitchState runs)
\* the map holds no entry for the flushed address, whatever calls were made
\* between the flushEntry that submitted it and its application.
C15_FlushFindsNoEntry ==
  [][IsApply(call', "flush")
       => (/\ ~hasCacheEntry(entries, call'.arg.ip)
           /\ call'.pre = "dcheck-ok")]_vars

\* C16: at the step in which Entry::destroy is requested for an entry, by
\* removeEntry or by a stopEntry task of the destructor, the map stops
\* holding that entry.
C16_DestroyDropsEntry ==
  [][/\ (IsFlushCall(call') /\ hasCacheEntry(entries, call'.arg.ip))
          => ~hasCacheEntry(entries', call'.arg.ip)
     /\ (call'.op = "bgRun" /\ call'.arg.kind = "stopEntry")
          => ~hasCacheEntry(entries', call'.arg.ip)]_vars

\* C17: no call of setEntry, setExistingEntry, setPendingEntry, portDown,
\* repopulate, processEntry or flushEntry fails a CHECK: programEntry is
\* only reached with an entry that is not pending and programPendingEntry
\* only with one that is, so every add update submitted carries resolved
\* fields and every pending update pending fields.
C17_ChecksHold ==
  [][/\ call'.op \in {"setEntry", "setExistingEntry", "setPendingEntry",
                       "portDown", "repopulate", "processEntry", "flushEntry"}
          => crashed' = crashed
     /\ \A i \in 1..Len(queue') :
          /\ queue'[i].kind = "add" => ~queue'[i].fields.pending
          /\ queue'[i].kind = "pending" => queue'[i].fields.pending]_vars

C17_Witness ==
  /\ call.op = "setEntry" /\ call.pre = "pending"
  /\ ~crashed
  /\ ~isPending(entries[call.arg.ip])
  /\ queue # <<>>
  /\ queue[Len(queue)] = AddUpdate(entries[call.arg.ip].fields)

\* C18: an add or add-pending update applied to a snapshot that has the VLAN
\* but in which the update's address is not locally attached returns nullptr
\* and leaves the tree as it is; the update carries the entry's fields only,
\* so the test is made on the snapshot it is applied to.
C18_SubnetAtApply ==
  [][(/\ call'.op = "apply" /\ call'.arg.kind \in {"add", "pending"}
      /\ tree.vlan
      /\ ~isIpAttached(call'.arg.fields.ip, tree))
       => (call'.ret.kind = "null" /\ tree' = tree)]_vars

C18_Witness ==
  /\ call.op = "apply" /\ call.arg.kind = "add"
  /\ call.ret.kind = "null"
  /\ tree.vlan /\ ~isIpAttached(call.arg.fields.ip, tree)
  /\ call.arg.fields.ip \notin DOMAIN tree.table
  /\ hasCacheEntry(entries, call.arg.fields.ip)

\* C19: from an empty cache on an empty table, with the VLAN present and
\* every address attached throughout, whenever every submitted update has
\* been applied the table has a node for an address exactly when the map has
\* an entry for it, and the node's MAC, port, interface and pending flag are
\* the entry's.
C19_QuiescentConsistent ==
  queue = <<>>
    => \A a \in Addrs :
         /\ (a \in DOMAIN tree.table) <=> hasCacheEntry(entries, a)
         /\ hasCacheEntry(entries, a)
              => (/\ tree.table[a].mac = entries[a].fields.mac
                  /\ tree.table[a].port = entries[a].fields.port
                  /\ tree.table[a].intf = entries[a].fields.interfaceID
                  /\ tree.table[a].pending = entries[a].fields.pending)

C19_Witness ==
  /\ IsApply(call, "flush") /\ call.ret.kind = "new"
  /\ queue = <<>>
  /\ ~hasCacheEntry(entries, call.arg.ip)
  /\ \E a \in DOMAIN entries :
       /\ ~isPending(entries[a])
       /\ a \in DOMAIN tree.table
       /\ tree.table[a].mac = entries[a].fields.mac

\* C20: repopulate(table) only creates or updates entries of the map (every
\* address held before is held after, and an entry whose address is not
\* imported is left as it was); it submits no update, and the tree is the
\* same version before and after.
C20_RepopulateNoUpdate ==
  [][call'.op = "repopulate"
       => (/\ queue' = queue
           /\ tree' = tree
           /\ DOMAIN entries' = DOMAIN entries \cup DOMAIN call'.arg
           /\ \A a \in DOMAIN entries \ DOMAIN call'.arg :
                entries'[a] = entries[a])]_vars

C20_Witness ==
  /\ call.op = "repopulate"
  /\ call.arg # EmptyMap
  /\ queue = <<>>
  /\ \E a \in DOMAIN call.arg :
       /\ hasCacheEntry(entries, a)
       /\ a \notin DOMAIN tree.table

====
